---------------------------- MODULE Spec2Model ----------------------------
(***************************************************************************)
(* pr-dday-labeler (src/src/index.ts): a CI action that keeps a countdown  *)
(* label "D-3" .. "D-0" on open pull requests and posts a Slack message    *)
(* whenever it changes a label.                                            *)
(*                                                                         *)
(* A label name is a sequence of one-character strings, so that            *)
(* startsWith, slice, parseInt and the template literal `D-${day - 1}` are *)
(* computed the way the code computes them.  The issue tracker holds a set *)
(* of label names per pull request; the order in which it lists them in a  *)
(* response is the tracker's choice.  Every await of the code is one step. *)
(***************************************************************************)
EXTENDS Integers, Sequences, FiniteSets

\* ------------------------------------------------------------------ bounds
NumPRs == 2

PRs == 1..NumPRs

\* ------------------------------------------------------------ label names
DigitChars == <<"0", "1", "2", "3", "4", "5", "6", "7", "8", "9">>

\* Number -> string conversion of the template literal, for a day >= 0.
RECURSIVE NumToString(_)
NumToString(n) ==
    IF n < 10 THEN <<DigitChars[n + 1]>>
    ELSE NumToString(n \div 10) \o <<DigitChars[(n % 10) + 1]>>

\* `D-${n}`
DashLabel(n) == <<"D", "-">> \o NumToString(n)

D3 == <<"D", "-", "3">>
D0 == <<"D", "-", "0">>

\* Label names the tracker may carry before the action ever ran.
InitNames ==
    { <<"D", "-", "2">>, D0, <<"D", "-", "x">>, <<"b", "u", "g">> }

\* label.name.startsWith("D-")
StartsWithD(name) == Len(name) >= 2 /\ name[1] = "D" /\ name[2] = "-"

\* name.slice(2)
Slice2(name) == IF Len(name) <= 2 THEN <<>> ELSE SubSeq(name, 3, Len(name))

\* ---------------------------------------------------------------- parseInt
IsDigit(c) == \E d \in 1..10 : DigitChars[d] = c
DigitVal(c) == (CHOOSE d \in 1..10 : DigitChars[d] = c) - 1

HexChars == <<"a", "b", "c", "d", "e", "f">>
HexUpper == <<"A", "B", "C", "D", "E", "F">>
IsHexDigit(c) == IsDigit(c) \/ \E d \in 1..6 : HexChars[d] = c \/ HexUpper[d] = c
HexVal(c) ==
    IF IsDigit(c) THEN DigitVal(c)
    ELSE 9 + (CHOOSE d \in 1..6 : HexChars[d] = c \/ HexUpper[d] = c)

IsRadixDigit(c, radix) == IF radix = 16 THEN IsHexDigit(c) ELSE IsDigit(c)

\* Leading white space is skipped.
RECURSIVE TrimStart(_)
TrimStart(s) ==
    IF s # <<>> /\ s[1] = " " THEN TrimStart(Tail(s)) ELSE s

\* The longest prefix of s made of digits of the radix.
RECURSIVE DigitPrefix(_, _)
DigitPrefix(s, radix) ==
    IF s # <<>> /\ IsRadixDigit(s[1], radix)
    THEN <<s[1]>> \o DigitPrefix(Tail(s), radix)
    ELSE <<>>

RECURSIVE DigitsValue(_, _, _)
DigitsValue(s, radix, acc) ==
    IF s = <<>> THEN acc
    ELSE DigitsValue(Tail(s), radix, acc * radix + HexVal(s[1]))

NaN == [nan |-> TRUE, val |-> 0]

\* parseInt(s) with no radix argument: white space, a sign, an optional 0x
\* prefix, then the longest run of digits; NaN when that run is empty.
ParseInt(s) ==
    LET t == TrimStart(s)
        neg == t # <<>> /\ t[1] = "-"
        u == IF t # <<>> /\ t[1] \in {"-", "+"} THEN Tail(t) ELSE t
        hex == Len(u) >= 2 /\ u[1] = "0" /\ u[2] \in {"x", "X"}
        radix == IF hex THEN 16 ELSE 10
        v == IF hex THEN SubSeq(u, 3, Len(u)) ELSE u
        ds == DigitPrefix(v, radix)
        mag == DigitsValue(ds, radix, 0)
    IN  IF ds = <<>> THEN NaN
        ELSE [nan |-> FALSE, val |-> IF neg THEN 0 - mag ELSE mag]

\* day > 0 : a comparison with NaN is false.
Positive(day) == ~day.nan /\ day.val > 0

\* ------------------------------------------------------- label transition
None == <<>>

\* pr.labels.find((label) => label.name.startsWith("D-")); None is undefined.
RECURSIVE FindCurrent(_)
FindCurrent(ls) ==
    IF ls = <<>> THEN None
    ELSE IF StartsWithD(ls[1]) THEN ls[1]
    ELSE FindCurrent(Tail(ls))

\* A transition that restarts the countdown at the floor.
NewLabelNoFloor(ls) ==
    LET currentLabel == FindCurrent(ls)
    IN  IF currentLabel = None THEN D3
        ELSE LET day == ParseInt(Slice2(currentLabel))
             IN  IF Positive(day) THEN DashLabel(day.val - 1) ELSE D3

\* The new label computed for a fetched label list.
NewLabel(ls) ==
    LET currentLabel == FindCurrent(ls)
    IN  IF currentLabel = None THEN D3
        ELSE LET day == ParseInt(Slice2(currentLabel))
             IN  IF Positive(day) THEN DashLabel(day.val - 1) ELSE D0

\* A comparison that always asks for an update.
NeedsUpdateAlways(ls) == TRUE

\* A comparison that asks for an update only when no D- label exists.
NeedsUpdateOnlyNew(ls) == FindCurrent(ls) = None

\* newLabel !== currentLabel?.name
NeedsUpdate(ls) == NewLabel(ls) # FindCurrent(ls)

\* A filter that keeps nothing of the fetched labels.
NonDLabelsDropAll(ls) == <<>>

\* pr.labels.filter((label) => !label.name.startsWith("D-")).map(name)
RECURSIVE NonDLabels(_)
NonDLabels(ls) ==
    IF ls = <<>> THEN <<>>
    ELSE IF StartsWithD(ls[1]) THEN NonDLabels(Tail(ls))
    ELSE <<ls[1]>> \o NonDLabels(Tail(ls))

\* The labels argument of issues.setLabels.
WriteList(ls) == <<NewLabel(ls)>> \o NonDLabels(ls)

Range(s) == {s[k] : k \in 1..Len(s)}

\* ------------------------------------------------------------ notification
\* A message that carries the warning block whatever the label.
MessageAlwaysWarns(number, label) ==
    [text |-> [pr |-> number, label |-> label],
     blocks |->
        <<[kind |-> "header", pr |-> number, label |-> <<>>],
          [kind |-> "fields", pr |-> number, label |-> label],
          [kind |-> "warning", pr |-> 0, label |-> <<>>]>>]

\* The message sendSlackNotification builds for a pull request and a label.
Message(number, label) ==
    [text |-> [pr |-> number, label |-> label],
     blocks |->
        <<[kind |-> "header", pr |-> number, label |-> None],
          [kind |-> "fields", pr |-> number, label |-> label]>>
        \o (IF label = D0
            THEN <<[kind |-> "warning", pr |-> 0, label |-> None]>>
            ELSE <<>>)]

NoMessage == [text |-> [pr |-> 0, label |-> None], blocks |-> <<>>]

\* ------------------------------------------------------------------- state
VARIABLES
    labels,       \* tracker: pull request -> set of label names
    pc,           \* where the invocation is
    event,        \* the triggering event of the invocation
    pulls,        \* pulls.data of the batch updater: fetched once
    idx,          \* index of the loop over pulls
    calls,        \* API and webhook calls of this invocation, in order
    failed,       \* message given to core.setFailed, "" when not called
    before,       \* labels of the event's pull request when addDdayLabel began
    prevRun       \* summary of the batch run that ended right before this one

vars == <<labels, pc, event, pulls, idx, calls, failed, before, prevRun>>

NoEvent == [name |-> "", action |-> "", number |-> 0]
NoRun == [present |-> FALSE, seen |-> <<>>, changed |-> {}]

BatchEvents == {"schedule", "workflow_dispatch"}
PullRequestActions == {"opened", "synchronize"}
OtherEvents == {"push"}

Call(op, number, ls, msg, ok) ==
    [op |-> op, pr |-> number, labels |-> ls, msg |-> msg, ok |-> ok]

\* All orders in which the tracker may list a set of label names.
Orders(S) ==
    {s \in [1..Cardinality(S) -> S] : \A a, b \in 1..Cardinality(S) : a # b => s[a] # s[b]}

DPrefixed(S) == {l \in S : StartsWithD(l)}

Init ==
    /\ labels \in [PRs -> {S \in SUBSET InitNames : Cardinality(DPrefixed(S)) <= 1}]
    /\ pc = "idle"
    /\ event = NoEvent
    /\ pulls = <<>>
    /\ idx = 0
    /\ calls = <<>>
    /\ failed = ""
    /\ before = {}
    /\ prevRun = NoRun


Events ==
    {[name |-> n, action |-> "", number |-> 0] : n \in BatchEvents \cup OtherEvents}
    \cup {[name |-> "pull_request", action |-> a, number |-> p] :
            a \in PullRequestActions, p \in PRs}

RequiredInputs == {"github-token", "slack-webhook-url"}

\* Pull requests whose label was replaced and announced in the logged calls.
Changed(cs) ==
    {p \in PRs :
        /\ \E k \in 1..Len(cs) : cs[k].op = "setLabels" /\ cs[k].pr = p /\ cs[k].ok
        /\ \E k \in 1..Len(cs) : cs[k].op = "post" /\ cs[k].pr = p /\ cs[k].ok}


\* What a batch run saw of each pull request: the current label of the
\* fetched list and whether that list held a single D- label at most.
Seen(ps) ==
    [p \in PRs |->
        LET ls == ps[CHOOSE k \in 1..Len(ps) : ps[k].number = p].labels
        IN  [current |-> FindCurrent(ls),
             single |-> Cardinality(DPrefixed({ls[k] : k \in 1..Len(ls)})) <= 1]]

\* ----------------------------------------------------------- run, line 7
\* A new invocation of the action begins; no other one is under way.  The
\* summary of the run before it is kept when two batch runs follow each other.
Begin(ev) ==
    /\ pc = "idle"
    /\ event' = ev
    /\ before' = IF ev.name = "pull_request" THEN labels[ev.number] ELSE {}
    /\ prevRun' = IF ev.name \in BatchEvents THEN prevRun ELSE NoRun
    /\ UNCHANGED <<labels, pulls, idx, calls>>

\* The promise of run() settles and the process ends: nothing of the
\* invocation outlives it but the labels on the tracker.
Finish ==
    /\ pc = "done"
    /\ pc' = "idle"
    /\ event' = NoEvent
    /\ pulls' = <<>>
    /\ idx' = 0
    /\ calls' = <<>>
    /\ failed' = ""
    /\ before' = {}
    /\ prevRun' =
         IF event.name \in BatchEvents /\ failed = ""
         THEN [present |-> TRUE, seen |-> Seen(pulls), changed |-> Changed(calls)]
         ELSE NoRun
    /\ UNCHANGED labels

\* A missing input whose error is swallowed: nothing is reported.
ConfigMissingSilent ==
    /\ Begin(NoEvent)
    /\ failed' = ""
    /\ pc' = "done"

\* core.getInput(..., {required: true}) throws when the input is missing:
\* the catch block reports the failure and nothing else runs; github.context
\* (line 15) is never read, so the invocation records no event.
ConfigMissing ==
    \E input \in RequiredInputs :
        /\ Begin(NoEvent)
        /\ failed' = "Input required and not supplied: " \o input
        /\ pc' = "done"

\* eventName is schedule or workflow_dispatch: updatePRLabels.
StartBatch ==
    \E ev \in Events :
        /\ ev.name = "schedule" \/ ev.name = "workflow_dispatch"
        /\ Begin(ev)
        /\ failed' = ""
        /\ pc' = "list"

\* eventName is pull_request: addDdayLabel for payload.pull_request.number.
StartInitializer ==
    \E ev \in Events :
        /\ ~(ev.name = "schedule" \/ ev.name = "workflow_dispatch")
        /\ ev.name = "pull_request"
        /\ Begin(ev)
        /\ failed' = ""
        /\ pc' = "addLabels"

\* Any other event: neither branch is taken.
StartOther ==
    \E ev \in Events :
        /\ ~(ev.name = "schedule" \/ ev.name = "workflow_dispatch")
        /\ ev.name # "pull_request"
        /\ Begin(ev)
        /\ failed' = ""
        /\ pc' = "done"

\* A rejected call whose error is never reported.
ThrowUnreported(call, message) ==
    /\ calls' = Append(calls, call)
    /\ failed' = ""
    /\ pc' = "done"

\* A call rejected: the error reaches the catch block of run.
Throw(call, message) ==
    /\ calls' = Append(calls, call)
    /\ failed' = message
    /\ pc' = "done"

\* ------------------------------------------------- updatePRLabels, line 37
FetchedPulls(ord) == [k \in 1..NumPRs |-> [number |-> k, labels |-> ord[k]]]

ListPulls ==
    /\ pc = "list"
    /\ \E ord \in [PRs -> UNION {Orders(labels[p]) : p \in PRs}] :
        /\ \A p \in PRs : ord[p] \in Orders(labels[p])
        /\ pulls' = FetchedPulls(ord)
    /\ calls' = Append(calls, Call("list", 0, <<>>, NoMessage, TRUE))
    /\ idx' = 1
    /\ pc' = "loop"
    /\ UNCHANGED <<labels, event, failed, before, prevRun>>

ListPullsFail ==
    /\ pc = "list"
    /\ Throw(Call("list", 0, <<>>, NoMessage, FALSE), "pulls.list failed")
    /\ UNCHANGED <<labels, event, pulls, idx, before, prevRun>>

\* The next iteration of the for loop, or its end.
NextPR ==
    /\ idx' = idx + 1
    /\ pc' = IF idx + 1 > Len(pulls) THEN "done" ELSE "loop"

\* else branch of line 62: the label is already newLabel.
SkipPR ==
    /\ pc = "loop"
    /\ ~NeedsUpdate(pulls[idx].labels)
    /\ NextPR
    /\ UNCHANGED <<labels, event, pulls, calls, failed, before, prevRun>>

\* The record of a label-replace write that succeeded; it keeps the label set
\* the tracker held when the write arrived.
Replaced(number, ls, old) ==
    [op |-> "setLabels", pr |-> number, labels |-> ls, msg |-> NoMessage,
     ok |-> TRUE, replaced |-> old]

\* A write that adds to the labels on the tracker instead of replacing them.
SetLabelsMerging ==
    /\ pc = "loop"
    /\ NeedsUpdate(pulls[idx].labels)
    /\ LET pr == pulls[idx]
           list == WriteList(pr.labels)
       IN  /\ labels' = [labels EXCEPT ![pr.number] = @ \cup Range(list)]
           /\ calls' = Append(calls, Replaced(pr.number, list, labels[pr.number]))
    /\ pc' = "post"
    /\ UNCHANGED <<event, pulls, idx, failed, before, prevRun>>

\* issues.setLabels replaces the whole label set of the pull request.
SetLabels ==
    /\ pc = "loop"
    /\ NeedsUpdate(pulls[idx].labels)
    /\ LET pr == pulls[idx]
           list == WriteList(pr.labels)
       IN  /\ labels' = [labels EXCEPT ![pr.number] = Range(list)]
           /\ calls' = Append(calls, Replaced(pr.number, list, labels[pr.number]))
    /\ pc' = "post"
    /\ UNCHANGED <<event, pulls, idx, failed, before, prevRun>>

\* A rejected write that is swallowed: the notification follows all the same.
SetLabelsFailSwallowed ==
    /\ pc = "loop"
    /\ NeedsUpdate(pulls[idx].labels)
    /\ LET pr == pulls[idx]
       IN  calls' = Append(calls, Call("setLabels", pr.number, WriteList(pr.labels),
                                       NoMessage, FALSE))
    /\ pc' = "post"
    /\ UNCHANGED <<labels, event, pulls, idx, failed, before, prevRun>>

SetLabelsFail ==
    /\ pc = "loop"
    /\ NeedsUpdate(pulls[idx].labels)
    /\ LET pr == pulls[idx]
       IN  Throw(Call("setLabels", pr.number, WriteList(pr.labels), NoMessage, FALSE),
                 "issues.setLabels failed")
    /\ UNCHANGED <<labels, event, pulls, idx, before, prevRun>>

\* sendSlackNotification(slackWebhookUrl, pr, newLabel)
Notify ==
    /\ pc = "post"
    /\ LET pr == pulls[idx]
       IN  calls' = Append(calls, Call("post", pr.number, <<>>,
                                       Message(pr.number, NewLabel(pr.labels)), TRUE))
    /\ NextPR
    /\ UNCHANGED <<labels, event, pulls, failed, before, prevRun>>

NotifyFail ==
    /\ pc = "post"
    /\ LET pr == pulls[idx]
       IN  Throw(Call("post", pr.number, <<>>,
                      Message(pr.number, NewLabel(pr.labels)), FALSE),
                 "axios.post failed")
    /\ UNCHANGED <<labels, event, pulls, idx, before, prevRun>>

\* --------------------------------------------------- addDdayLabel, line 94
\* A label call that replaces instead of adding.
AddedLabelsReplace(S) == {D3}

\* issues.addLabels({labels: ["D-3"]}) adds to what the pull request carries.
AddedLabels(S) == S \cup {D3}

AddLabels ==
    /\ pc = "addLabels"
    /\ labels' = [labels EXCEPT ![event.number] = AddedLabels(labels[event.number])]
    /\ calls' = Append(calls, Call("addLabels", event.number, <<D3>>, NoMessage, TRUE))
    /\ pc' = "get"
    /\ UNCHANGED <<event, pulls, idx, failed, before, prevRun>>

AddLabelsFail ==
    /\ pc = "addLabels"
    /\ Throw(Call("addLabels", event.number, <<D3>>, NoMessage, FALSE),
             "issues.addLabels failed")
    /\ UNCHANGED <<labels, event, pulls, idx, before, prevRun>>

GetPull ==
    /\ pc = "get"
    /\ calls' = Append(calls, Call("get", event.number, <<>>, NoMessage, TRUE))
    /\ pc' = "postInit"
    /\ UNCHANGED <<labels, event, pulls, idx, failed, before, prevRun>>

GetPullFail ==
    /\ pc = "get"
    /\ Throw(Call("get", event.number, <<>>, NoMessage, FALSE), "pulls.get failed")
    /\ UNCHANGED <<labels, event, pulls, idx, before, prevRun>>

NotifyInit ==
    /\ pc = "postInit"
    /\ calls' = Append(calls, Call("post", event.number, <<>>,
                                   Message(event.number, D3), TRUE))
    /\ pc' = "done"
    /\ UNCHANGED <<labels, event, pulls, idx, failed, before, prevRun>>

NotifyInitFail ==
    /\ pc = "postInit"
    /\ Throw(Call("post", event.number, <<>>, Message(event.number, D3), FALSE),
             "axios.post failed")
    /\ UNCHANGED <<labels, event, pulls, idx, before, prevRun>>

Next ==
    \/ ConfigMissing
    \/ StartBatch
    \/ StartInitializer
    \/ StartOther
    \/ ListPulls
    \/ ListPullsFail
    \/ SkipPR
    \/ SetLabels
    \/ SetLabelsFail
    \/ Notify
    \/ NotifyFail
    \/ AddLabels
    \/ AddLabelsFail
    \/ GetPull
    \/ GetPullFail
    \/ NotifyInit
    \/ NotifyInitFail
    \/ Finish

Spec == Init /\ [][Next]_vars

\* Somebody else edits the labels of a pull request on the tracker, at any
\* moment: a label is put on it or taken off it.
ExtNames == {<<"w", "i", "p">>}

ExternalEdit ==
    /\ \E p \in PRs, l \in ExtNames :
          labels' = [labels EXCEPT ![p] = IF l \in @ THEN @ \ {l} ELSE @ \cup {l}]
    /\ UNCHANGED <<pc, event, pulls, idx, calls, failed, before, prevRun>>

\* The batch updater, run again and again, next to that other actor.
NextExt ==
    \/ StartBatch
    \/ ListPulls
    \/ ListPullsFail
    \/ SkipPR
    \/ SetLabels
    \/ SetLabelsFail
    \/ Notify
    \/ NotifyFail
    \/ Finish
    \/ ExternalEdit

SpecExt == Init /\ [][NextExt]_vars

\* The same program on a tracker that also carries a label past the start of
\* the countdown: label names are free text for whoever edits them.
WideNames == InitNames \cup {<<"D", "-", "5">>}

InitWide ==
    /\ labels \in [PRs -> {S \in SUBSET WideNames : Cardinality(DPrefixed(S)) <= 1}]
    /\ pc = "idle"
    /\ event = NoEvent
    /\ pulls = <<>>
    /\ idx = 0
    /\ calls = <<>>
    /\ failed = ""
    /\ before = {}
    /\ prevRun = NoRun

SpecWide == InitWide /\ [][Next]_vars

\* Batch runs only, repeated for ever, in which every call succeeds: the
\* schedule keeps triggering the workflow and every awaited call resolves.
NextLive ==
    \/ StartBatch
    \/ ListPulls
    \/ SkipPR
    \/ SetLabels
    \/ Notify
    \/ Finish

SpecLive == Init /\ [][NextLive]_vars /\ WF_vars(NextLive)


\* =================================================================== claims
\* Vocabulary of the claims, stated apart from the code's own tests.

\* A label of the form D-<integer>: "D-", an optional minus sign, digits only.
MatchesDday(name) ==
    /\ StartsWithD(name)
    /\ LET suffix == Slice2(name)
           digits == IF suffix # <<>> /\ suffix[1] = "-" THEN Tail(suffix) ELSE suffix
       IN  digits # <<>> /\ \A k \in 1..Len(digits) : IsDigit(digits[k])

\* The integer of a label of the form D-<integer>.
DdayOf(name) ==
    LET suffix == Slice2(name)
        neg == suffix[1] = "-"
        digits == IF neg THEN Tail(suffix) ELSE suffix
        mag == DigitsValue(digits, 10, 0)
    IN  IF neg THEN 0 - mag ELSE mag

\* The first label of a list that has the form D-<integer>, None without one.
RECURSIVE FirstDday(_)
FirstDday(ls) ==
    IF ls = <<>> THEN None
    ELSE IF MatchesDday(ls[1]) THEN ls[1]
    ELSE FirstDday(Tail(ls))

\* The transition as the specification words it.
ExpectedLabel(ls) ==
    LET first == FirstDday(ls)
    IN  IF first = None THEN D3
        ELSE IF DdayOf(first) >= 1 THEN DashLabel(DdayOf(first) - 1) ELSE D0

InBatch == event.name \in BatchEvents
InInitializer == event.name = "pull_request"

\* The label of pull request k of the fetched list differs from the new one.
Differs(k) ==
    \/ FindCurrent(pulls[k].labels) = None
    \/ NewLabel(pulls[k].labels) # FindCurrent(pulls[k].labels)

CallsOf(op, number) == {j \in 1..Len(calls) : calls[j].op = op /\ calls[j].pr = number}
Issued(op, number) == CallsOf(op, number) # {}
Succeeded(op, number) == \E j \in CallsOf(op, number) : calls[j].ok

\* The fetched label list of a pull request of the batch.
Observed(number) == pulls[CHOOSE k \in 1..Len(pulls) : pulls[k].number = number].labels

\* C1: for every fetched label list the transition yields D-3 when no label
\* has the form D-<integer>, and otherwise D-(d-1) for d >= 1 and D-0 for
\* d <= 0, d being the integer of the first label of that form; no other
\* label of the list has a say.
C1_TransitionByFirstDday ==
    InBatch => \A k \in 1..Len(pulls) :
                  NewLabel(pulls[k].labels) = ExpectedLabel(pulls[k].labels)

\* C2: in a batch run a pull request is written and announced if and only
\* if its new label differs from its current D- label (or it has none): no
\* write and no notification is ever issued for an unchanged label, and
\* every pull request whose iteration ran to its end with a changed label
\* got its write and its notification.
C2_WriteAndNotifyIffChanged ==
    InBatch => \A k \in 1..Len(pulls) :
        /\ (Issued("setLabels", pulls[k].number) \/ Issued("post", pulls[k].number))
              => Differs(k)
        /\ (k < idx /\ Differs(k))
              => Succeeded("setLabels", pulls[k].number) /\ Succeeded("post", pulls[k].number)

\* A finished batch run that changed one pull request and left another alone.
C2_Witness ==
    /\ InBatch /\ pc = "done" /\ failed = ""
    /\ \E k \in 1..Len(pulls) :
          Differs(k) /\ Succeeded("setLabels", pulls[k].number)
                     /\ Succeeded("post", pulls[k].number)
    /\ \E k \in 1..Len(pulls) :
          ~Differs(k) /\ ~Issued("setLabels", pulls[k].number)
                      /\ ~Issued("post", pulls[k].number)

\* C3: whatever batch and initializer runs happen, starting from pull
\* requests with at most one D- label each, every pull request carries at
\* most one D- label.
C3_AtMostOneDLabel ==
    \A p \in PRs : Cardinality(DPrefixed(labels[p])) <= 1

\* C4 as claimed: every label-replace write of the batch sets exactly the new
\* label plus every fetched label that is not the D-<integer> countdown
\* label, labels that merely begin with "D-" included.
C4_KeepsAllButCountdown ==
    InBatch => \A j \in 1..Len(calls) :
        calls[j].op = "setLabels" =>
            LET ls == Observed(calls[j].pr)
            IN  Range(calls[j].labels) =
                    {calls[j].labels[1]} \cup (Range(ls) \ {FirstDday(ls)})

\* C4 as amended: every label-replace write of the batch sets exactly the new
\* label plus every fetched label that does not begin with "D-"; each such
\* label is kept, every label beginning with "D-" is dropped, nothing else
\* is added, and a successful write leaves the tracker with that set.
C4_KeepsNonDPrefixed ==
    InBatch => \A j \in 1..Len(calls) :
        calls[j].op = "setLabels" =>
            LET ls == Observed(calls[j].pr)
                kept == {l \in Range(ls) : ~(Len(l) >= 2 /\ l[1] = "D" /\ l[2] = "-")}
            IN  /\ calls[j].labels[1] = NewLabel(ls)
                /\ Range(calls[j].labels) = {calls[j].labels[1]} \cup kept
                /\ Len(calls[j].labels) = 1 + Cardinality(kept)
                /\ (pc = "post" /\ j = Len(calls))
                      => labels[calls[j].pr] = {calls[j].labels[1]} \cup kept

\* A write that replaced a D- label and kept the other label of the list.
C4_Witness ==
    /\ InBatch /\ pc = "post"
    /\ LET c == calls[Len(calls)]
       IN  /\ c.op = "setLabels" /\ c.ok
           /\ FindCurrent(Observed(c.pr)) # None
           /\ Len(c.labels) = 2
           /\ labels[c.pr] = Range(c.labels)

\* Both runs of two successive batch runs completed.
TwoRunsDone == InBatch /\ pc = "done" /\ failed = "" /\ prevRun.present

\* The labels of the DdayLabel type.
DdayLabels == {D3, <<"D", "-", "2">>, <<"D", "-", "1">>, D0}

\* The current label the first and the second run fetched for a pull request.
FirstCurrent(p) == prevRun.seen[p].current
SecondCurrent(p) == Seen(pulls)[p].current

\* C5 as claimed: of two batch runs in immediate succession, both change the
\* D- label (write and notification) of every pull request that started
\* with no D- label or with D-3, D-2 or D-1 as its only D- label, and
\* neither touches a pull request that started with D-0 as its only D- label.
C5_BothRunsChange ==
    TwoRunsDone => \A p \in PRs :
        prevRun.seen[p].single =>
            /\ FirstCurrent(p) = D0
                  => p \notin prevRun.changed /\ p \notin Changed(calls)
            /\ FirstCurrent(p) \in ({None} \cup DdayLabels) \ {D0}
                  => p \in prevRun.changed /\ p \in Changed(calls)

\* C5 as amended: in each of two batch runs in immediate succession a pull
\* request gets its write and its notification exactly when the current
\* label that run fetched is not D-0, and no call at all when it is D-0; so
\* both runs change a pull request that started with no D- label or with
\* D-3 or D-2 as its only D- label, only the first run changes one that
\* started at D-1, and neither touches one that started at D-0.
C5_EachRunChangesUnlessAtD0 ==
    TwoRunsDone => \A p \in PRs :
        /\ p \in prevRun.changed <=> FirstCurrent(p) # D0
        /\ p \in Changed(calls) <=> SecondCurrent(p) # D0
        /\ SecondCurrent(p) = D0 => ~Issued("setLabels", p) /\ ~Issued("post", p)
        /\ prevRun.seen[p].single =>
            /\ FirstCurrent(p) = D0
                  => p \notin prevRun.changed /\ p \notin Changed(calls)
            /\ FirstCurrent(p) = <<"D", "-", "1">>
                  => p \in prevRun.changed /\ p \notin Changed(calls)
            /\ FirstCurrent(p) \in {None, D3, <<"D", "-", "2">>}
                  => p \in prevRun.changed /\ p \in Changed(calls)

\* Two runs where the first brought a pull request from D-1 to D-0 and the
\* second left it alone, next to a pull request changed by both.
C5_Witness ==
    /\ TwoRunsDone
    /\ \E p \in PRs : /\ FirstCurrent(p) = <<"D", "-", "1">>
                      /\ p \in prevRun.changed
                      /\ SecondCurrent(p) = D0
                      /\ ~Issued("setLabels", p)
    /\ \E p \in PRs : p \in prevRun.changed /\ p \in Changed(calls)

\* C6: once D-0 is the D- label of a pull request, no step of a batch run
\* changes its label set, writes to it or announces it (the notification of
\* the very write that set D-0 aside): D-0 is never decremented, removed or
\* rewritten.
C6_FrozenAtD0 ==
    [][\A p \in PRs :
          (/\ DPrefixed(labels[p]) = {D0}
           /\ pc \in {"list", "loop"} \/ (pc = "post" /\ pulls[idx].number # p))
             => /\ labels'[p] = labels[p]
                /\ \A j \in 1..Len(calls') :
                      (calls'[j].pr = p /\ calls'[j].op \in {"setLabels", "post"})
                         => j <= Len(calls) /\ calls[j] = calls'[j]]_vars

\* A pull request at D-0 that went through two whole batch runs untouched.
C6_Witness ==
    /\ TwoRunsDone
    /\ \E p \in PRs : /\ FirstCurrent(p) = D0
                      /\ DPrefixed(labels[p]) = {D0}
                      /\ Cardinality(labels[p]) = 2
                      /\ ~Issued("setLabels", p)
    /\ \E p \in PRs : p \in Changed(calls)

\* C7: in a batch run a failed write or notification of one pull request
\* does not keep the others from being processed: every other pull request
\* of the fetched list whose label changes gets its write and notification.
C7_FailureIsolated ==
    (InBatch /\ pc = "done" /\ failed # "") =>
        \A k \in 1..Len(pulls) :
            (Differs(k) /\ calls[Len(calls)].pr # pulls[k].number)
               => Issued("setLabels", pulls[k].number) /\ Issued("post", pulls[k].number)

\* A D- label whose suffix is not a non-negative integer.
Malformed(name) ==
    /\ StartsWithD(name)
    /\ LET suffix == Slice2(name)
       IN  suffix = <<>> \/ \E k \in 1..Len(suffix) : ~IsDigit(suffix[k])

\* C8: a pull request whose D- label has a malformed suffix is either set to
\* D-3 or skipped by the batch run; no write gives it another label.
C8_MalformedToD3OrSkipped ==
    InBatch => \A j \in 1..Len(calls) :
        (calls[j].op = "setLabels" /\ Malformed(FindCurrent(Observed(calls[j].pr))))
           => calls[j].labels[1] = D3

\* The invocation got past its inputs and took a branch.
RanBatch == pc \in {"list", "loop", "post"} \/ \E j \in 1..Len(calls) : calls[j].op = "list"
RanInitializer ==
    pc \in {"addLabels", "get", "postInit"} \/ \E j \in 1..Len(calls) : calls[j].op = "addLabels"

\* C9: the batch updater runs exactly for a scheduled or manual event, the
\* initializer exactly for a pull request creation event and on the pull
\* request of the payload, and any other event, a pull request event that
\* is no creation included, makes no call, changes no label and reports no
\* failure.
C9_Dispatch ==
    event # NoEvent =>
        /\ RanBatch <=> event.name \in {"schedule", "workflow_dispatch"}
        /\ RanInitializer <=> (event.name = "pull_request" /\ event.action = "opened")
        /\ RanInitializer => \A j \in 1..Len(calls) : calls[j].pr = event.number
        /\ (~RanBatch /\ ~RanInitializer) => (calls = <<>> /\ failed = "" /\ pc = "done")

\* C10: an initializer run that ends without failure has left the pull
\* request with its previous labels plus D-3 and has made three calls in this
\* order: the label added, the pull request fetched, one notification sent,
\* carrying D-3.
C10_InitializerAddsD3 ==
    (InInitializer /\ pc = "done" /\ failed = "") =>
        /\ labels[event.number] = before \cup {D3}
        /\ Len(calls) = 3
        /\ \A j \in 1..3 : calls[j].pr = event.number /\ calls[j].ok
        /\ calls[1].op = "addLabels" /\ calls[1].labels = <<D3>>
        /\ calls[2].op = "get"
        /\ calls[3].op = "post"
        /\ calls[3].msg.text = [pr |-> event.number, label |-> D3]
        /\ \E b \in 1..Len(calls[3].msg.blocks) :
              calls[3].msg.blocks[b].kind = "fields" /\ calls[3].msg.blocks[b].label = D3

\* An initializer run that ended well on a pull request that carried labels.
C10_Witness ==
    /\ InInitializer /\ pc = "done" /\ failed = ""
    /\ before # {} /\ D3 \notin before
    /\ labels[event.number] = before \cup {D3}
    /\ Len(calls) = 3

\* The messages of core.getInput for a required input that is missing.
MissingInputMessages ==
    {"Input required and not supplied: github-token",
     "Input required and not supplied: slack-webhook-url"}

\* C11: an invocation whose token or webhook URL is missing ends at once,
\* reported as failed with the message of the missing input, without any
\* tracker call and without any webhook POST.
C11_MissingInputAborts ==
    /\ failed \in MissingInputMessages => (calls = <<>> /\ pc = "done")
    /\ (pc = "done" /\ event = NoEvent) => failed \in MissingInputMessages

\* An invocation that ended on a missing webhook URL.
C11_Witness ==
    /\ pc = "done" /\ event = NoEvent /\ calls = <<>>
    /\ failed = "Input required and not supplied: slack-webhook-url"

\* The kinds of the blocks of a message, in order.
BlockKinds(msg) == [b \in 1..Len(msg.blocks) |-> msg.blocks[b].kind]

\* C12: a notification carries the due-today warning block if and only if
\* its label is D-0: with D-0 its blocks are header, fields, warning; with
\* D-3, D-2 or D-1 they are header and fields only.
C12_WarningIffD0 ==
    \A j \in 1..Len(calls) :
        calls[j].op = "post" =>
            LET msg == calls[j].msg
            IN  /\ msg.text.label = D0
                      => BlockKinds(msg) = <<"header", "fields", "warning">>
                /\ msg.text.label \in {D3, <<"D", "-", "2">>, <<"D", "-", "1">>}
                      => BlockKinds(msg) = <<"header", "fields">>
                /\ msg.blocks[2].label = msg.text.label

\* A run that sent a D-0 notification with the warning and another without.
C12_Witness ==
    /\ \E j \in 1..Len(calls) :
          /\ calls[j].op = "post" /\ calls[j].ok /\ calls[j].msg.text.label = D0
          /\ Len(calls[j].msg.blocks) = 3
    /\ \E j \in 1..Len(calls) :
          /\ calls[j].op = "post" /\ calls[j].ok /\ calls[j].msg.text.label # D0
          /\ Len(calls[j].msg.blocks) = 2

\* C13: within one batch run a pull request gets at most one label-replace
\* write and at most one notification; a notification is sent only after
\* the write of that pull request succeeded, never after a failed write.
C13_OneWriteThenOneNotification ==
    InBatch => \A i, j \in 1..Len(calls) :
        /\ (i # j /\ calls[i].pr = calls[j].pr /\ calls[i].op = calls[j].op)
              => calls[i].op \notin {"setLabels", "post"}
        /\ calls[j].op = "post"
              => /\ j > 1
                 /\ calls[j - 1].op = "setLabels"
                 /\ calls[j - 1].pr = calls[j].pr
                 /\ calls[j - 1].ok
        /\ (calls[j].op = "setLabels" /\ ~calls[j].ok)
              => ~Issued("post", calls[j].pr)

\* A run that wrote and announced one pull request, then failed to write the
\* next one and sent nothing for it.
C13_Witness ==
    /\ InBatch /\ pc = "done" /\ Len(calls) = 4
    /\ calls[2].op = "setLabels" /\ calls[2].ok
    /\ calls[3].op = "post" /\ calls[3].pr = calls[2].pr
    /\ calls[4].op = "setLabels" /\ ~calls[4].ok
    /\ ~Issued("post", calls[4].pr)

\* The message of the error each kind of call is rejected with.
RejectionMessage(op) ==
    CASE op = "list" -> "pulls.list failed"
      [] op = "setLabels" -> "issues.setLabels failed"
      [] op = "addLabels" -> "issues.addLabels failed"
      [] op = "get" -> "pulls.get failed"
      [] op = "post" -> "axios.post failed"

\* C17: a rejected tracker call or webhook POST ends the invocation, which
\* is reported as failed with the message of that rejection; the label
\* writes the invocation completed before it stay on the tracker.
C17_FailureReportedNoRollback ==
    \A j \in 1..Len(calls) :
        ~calls[j].ok =>
            /\ j = Len(calls)
            /\ pc = "done"
            /\ failed = RejectionMessage(calls[j].op)
            /\ \A i \in 1..(j - 1) :
                  /\ (calls[i].op = "setLabels" /\ calls[i].ok)
                        => labels[calls[i].pr] = Range(calls[i].labels)
                  /\ (calls[i].op = "addLabels" /\ calls[i].ok)
                        => labels[calls[i].pr] = before \cup Range(calls[i].labels)

\* A batch run that relabelled two pull requests and whose last webhook POST
\* was rejected: reported as failed, both new label sets in place.
C17_Witness ==
    /\ InBatch /\ pc = "done" /\ failed = "axios.post failed"
    /\ Len(calls) = 5
    /\ calls[2].op = "setLabels" /\ labels[calls[2].pr] = Range(calls[2].labels)
    /\ calls[4].op = "setLabels" /\ labels[calls[4].pr] = Range(calls[4].labels)
    /\ calls[4].pr # calls[2].pr
    /\ ~calls[5].ok

\* C15: every D- label the system writes to a pull request or puts in a
\* notification, in any batch or initializer run and whatever labels the
\* pull requests start with, is one of D-3, D-2, D-1, D-0.
C15_OnlyDdayLabelsWritten ==
    \A j \in 1..Len(calls) :
        /\ calls[j].op = "setLabels" => calls[j].labels[1] \in DdayLabels
        /\ calls[j].op = "addLabels" => Range(calls[j].labels) \subseteq DdayLabels
        /\ calls[j].op = "post" => calls[j].msg.text.label \in DdayLabels

\* C14: every label-replace write of a batch run is computed from the list
\* fetched once at the start of that run, and it overwrites whatever the
\* tracker holds by then: a label somebody put on the pull request after the
\* fetch is gone after the write, a label taken off it is back.
C14_WriteFromSnapshotWins ==
    [][/\ (pc = "loop" /\ pc' = "post") =>
            LET snap == pulls[idx].labels
                kept == {l \in Range(snap) : ~(Len(l) >= 2 /\ l[1] = "D" /\ l[2] = "-")}
            IN  labels'[pulls[idx].number] = {NewLabel(snap)} \cup kept
       /\ pc \in {"loop", "post"} => pulls' = pulls
       /\ pc' \in {"loop", "post"} =>
            Cardinality({j \in 1..Len(calls') : calls'[j].op = "list"}) = 1]_vars

\* A write that has just wiped out a label put on the pull request after the
\* list was fetched.
C14_Witness ==
    /\ InBatch /\ pc = "post"
    /\ LET c == calls[Len(calls)]
       IN  /\ c.op = "setLabels" /\ c.ok
           /\ \E l \in c.replaced :
                 /\ l \notin Range(Observed(c.pr))
                 /\ ~StartsWithD(l)
                 /\ l \notin labels[c.pr]

\* The days a pull request is from due, as the specification counts them:
\* the integer of its D-<integer> label, floored at 0, and 4 without one.
DaysLeft(ls) ==
    LET first == FirstDday(ls)
    IN  IF first = None THEN 4
        ELSE IF DdayOf(first) >= 1 THEN DdayOf(first) ELSE 0

\* A finished batch run has left every pull request one day closer to due
\* than it fetched it (and at D-0 once there).
StepCloser ==
    (InBatch /\ pc = "done") => \A p \in PRs :
        DPrefixed(labels[p]) =
            {DashLabel(IF DaysLeft(Observed(p)) >= 1 THEN DaysLeft(Observed(p)) - 1 ELSE 0)}

\* A batch run that fetched a pull request at D-0 issues no call for it.
QuietAtDue ==
    (InBatch /\ pc \in {"loop", "post", "done"}) => \A p \in PRs :
        FindCurrent(Observed(p)) = D0 => ~Issued("setLabels", p) /\ ~Issued("post", p)

\* Every pull request carries D-0 as its only D- label.
AllDue == \A p \in PRs : DPrefixed(labels[p]) = {D0}

\* C16: under batch runs repeated for ever with no failing call and no
\* outside edit, every run leaves each pull request's D- label one day closer
\* to due than it found it (D-3 from no D- label, so D-0 within 4 runs),
\* every pull request ends up at D-0 for good, and a run that finds a pull
\* request at D-0 issues neither a write nor a notification for it.
C16_CountdownToDue == [](StepCloser /\ QuietAtDue) /\ <>[]AllDue

=============================================================================
